---- MODULE Spec2Model ----
(***************************************************************************)
(* Model of the sticker-creator image pipeline (src/main.py):              *)
(*   - create_square_image, the canvas normalizer, with the binary64       *)
(*     arithmetic Python uses for "size / original_width" and              *)
(*     "int(original_width * scale)";                                      *)
(*   - process_image, the per-file pipeline, wrapped by log_performance;   *)
(*   - ImageHandler and main(), the folder watcher.                        *)
(***************************************************************************)
EXTENDS Integers, Sequences, FiniteSets, TLC

(***************************************************************************)
(* Bounds of the model.                                                    *)
(***************************************************************************)
MaxDim == 13        \* largest width/height of an input of the normalizer
MaxSize == 16       \* largest target size handed to the normalizer
MaxQueue == 1       \* most creation events waiting in the observer's queue
MaxRow == 3         \* longest pixel row handed to the outline generator
MaxOutline == 1     \* largest outline width handed to the outline generator
MaxBatch == 2       \* most files in one upload request

VARIABLES
    nPc, nImg, nSize, nOut,     \* one call of create_square_image
    oPc, oImg, oWidth, oOut,    \* one call of add_white_outline
    upPc, files, processed_files, zipped,   \* one request to upload_files
    born, dispatched,           \* per name: when created, dispatches this run
    incoming, archived, processed,  \* the folders new/, old/, processed/
    frame,                      \* per thread: its process_image invocation
    mainPc, backlog,            \* main(): position, entries left to scan
    obsRunning, queue,          \* the watchdog observer and its event queue
    stopRequested               \* history: a KeyboardInterrupt was handled

nvars == <<nPc, nImg, nSize, nOut>>
ovars == <<oPc, oImg, oWidth, oOut>>
uvars == <<upPc, files, processed_files, zipped>>
gvars == <<born, dispatched>>
cvars == <<nvars, ovars, uvars>>
pvars == <<nvars, ovars, uvars, gvars>>
wvars == <<incoming, archived, processed, frame, mainPc, backlog,
           obsRunning, queue, stopRequested>>
vars == <<nPc, nImg, nSize, nOut, oPc, oImg, oWidth, oOut,
          upPc, files, processed_files, zipped, born, dispatched, incoming, archived, processed, frame,
          mainPc, backlog, obsRunning, queue, stopRequested>>

(***************************************************************************)
(* Python floats: IEEE-754 binary64, round to nearest, ties to even.       *)
(* A positive float is [e |-> exponent, m |-> <<1, l2, l3, l4, l5>>]: the  *)
(* 53-bit significand as its leading bit followed by four limbs of 13      *)
(* bits; its value is (1 + l2/B + l3/B^2 + l4/B^3 + l5/B^4) * 2^e.         *)
(***************************************************************************)
LimbBits == 13
Limbs == 5
B == 2 ^ LimbBits

RECURSIVE UpExp(_, _, _)
UpExp(a, b, k) == IF 2 * b <= a THEN UpExp(a, 2 * b, k + 1) ELSE k

RECURSIVE DownExp(_, _, _)
DownExp(a, b, k) == IF a >= b THEN k ELSE DownExp(2 * a, b, k - 1)

\* the further limbs of the quotient r/d (r < d), by long division in base B
RECURSIVE GenLimbs(_, _, _, _)
GenLimbs(r, d, n, acc) ==
    IF n = 0 THEN [m |-> acc, rem |-> r]
    ELSE GenLimbs((r * B) % d, d, n - 1, Append(acc, (r * B) \div d))

\* significand + 1 unit in the last place; carry is 1 when it reached 2.0
RECURSIVE IncLimbs(_, _)
IncLimbs(m, i) ==
    IF i = 1 THEN [m |-> m, carry |-> 1]
    ELSE IF m[i] < B - 1 THEN [m |-> [m EXCEPT ![i] = m[i] + 1], carry |-> 0]
         ELSE IncLimbs([m EXCEPT ![i] = 0], i - 1)

\* Round to nearest, ties to even: guard is the first bit beyond the
\* significand, sticky says whether anything non-zero follows the guard bit.
RoundNearestEven(e, m, guard, sticky) ==
    IF guard = 1 /\ (sticky \/ m[Limbs] % 2 = 1)
    THEN LET inc == IncLimbs(m, Limbs)
         IN  IF inc.carry = 1
             THEN [e |-> e + 1, m |-> [i \in 1..Limbs |-> IF i = 1 THEN 1 ELSE 0]]
             ELSE [e |-> e, m |-> inc.m]
    ELSE [e |-> e, m |-> m]

\* a / b for positive integers a, b (Python true division of two ints).
FDiv(a, b) ==
    LET e == IF a >= b THEN UpExp(a, b, 0) ELSE DownExp(a, b, 0)
        n0 == IF e >= 0 THEN a ELSE a * 2 ^ (0 - e)
        d0 == IF e >= 0 THEN b * 2 ^ e ELSE b
        q == GenLimbs(n0 - d0, d0, Limbs - 1, <<1>>)
        g == IF 2 * q.rem >= d0 THEN 1 ELSE 0
        r == 2 * q.rem - g * d0
    IN  RoundNearestEven(e, q.m, g, r > 0)

\* limbs of w * significand, least significant limb first; the head of the
\* result is the integer part of the product
RECURSIVE MulStep(_, _, _, _, _)
MulStep(m, i, w, carry, acc) ==
    IF i = 1 THEN <<w * m[1] + carry>> \o acc
    ELSE MulStep(m, i - 1, w, (w * m[i] + carry) \div B,
                 <<(w * m[i] + carry) % B>> \o acc)

\* w * x for a positive integer w < B and a positive float x (int * float).
FMulInt(w, x) ==
    LET p == MulStep(x.m, Limbs, w, 0, <<>>)
        k == UpExp(p[1], 1, 0)
        sh == [i \in 1..Limbs |->
                 IF i = 1 THEN p[1] \div 2 ^ k
                 ELSE (p[i - 1] % 2 ^ k) * 2 ^ (LimbBits - k) + p[i] \div 2 ^ k]
        out == p[Limbs] % 2 ^ k
        g == IF k >= 1 THEN out \div 2 ^ (k - 1) ELSE 0
        s == k >= 1 /\ out % 2 ^ (k - 1) # 0
    IN  RoundNearestEven(x.e + k, sh, g, s)

\* a < b on positive floats
RECURSIVE LimbsLess(_, _, _)
LimbsLess(a, b, i) ==
    IF i > Limbs THEN FALSE
    ELSE IF a[i] # b[i] THEN a[i] < b[i]
         ELSE LimbsLess(a, b, i + 1)

FLess(a, b) == a.e < b.e \/ (a.e = b.e /\ LimbsLess(a.m, b.m, 1))

\* Python min(a, b): b only when it is strictly smaller than a
FMin(a, b) == IF FLess(b, a) THEN b ELSE a

\* the part of limb i that lies at or above the binary point of x
LimbInt(x, i) ==
    LET pos == LimbBits * (i - 1)
    IN  IF x.e >= pos THEN x.m[i] * 2 ^ (x.e - pos)
        ELSE IF pos - x.e >= LimbBits THEN 0
        ELSE x.m[i] \div 2 ^ (pos - x.e)

RECURSIVE SumLimbs(_, _)
SumLimbs(x, i) == IF i > Limbs THEN 0 ELSE LimbInt(x, i) + SumLimbs(x, i + 1)

\* int(x) for a positive float x: truncation toward zero
FTrunc(x) == IF x.e < 0 THEN 0 ELSE SumLimbs(x, 1)

(***************************************************************************)
(* create_square_image(img, size).  An image is [mode, w, h]; the result   *)
(* records the canvas, the resized size and the paste offset.  img.resize  *)
(* raises ValueError when a requested dimension is below 1.                *)
(***************************************************************************)
create_square_image(img, size) ==
    LET original_width == img.w
        original_height == img.h
        scale == FMin(FDiv(size, original_width), FDiv(size, original_height))
        new_width == FTrunc(FMulInt(original_width, scale))
        new_height == FTrunc(FMulInt(original_height, scale))
        rgba == img.mode = "RGBA"
    IN  [status |-> IF new_width < 1 \/ new_height < 1 THEN "ValueError" ELSE "ok",
         mode |-> IF rgba THEN "RGBA" ELSE "RGB",
         width |-> size, height |-> size,
         fill |-> IF rgba THEN "transparent" ELSE "white",
         new_width |-> new_width, new_height |-> new_height,
         x |-> (size - new_width) \div 2,
         y |-> (size - new_height) \div 2,
         mask |-> rgba]

NoCanvas == [status |-> "none"]

Modes == {"RGB", "RGBA"}

NormInit ==
    /\ nPc = "call"
    /\ nImg \in [mode : Modes, w : 1..MaxDim, h : 1..MaxDim]
    /\ nSize \in 1..MaxSize
    /\ nOut = NoCanvas

NormCall ==
    /\ nPc = "call"
    /\ nOut' = create_square_image(nImg, nSize)
    /\ nPc' = "done"
    /\ UNCHANGED <<nImg, nSize>>

(***************************************************************************)
(* add_white_outline(img, outline_width) on pixels.  An image is one row   *)
(* of pixels [mode, px]; an RGBA pixel is <<r, g, b, a>>.                  *)
(***************************************************************************)
SetMax(S) == CHOOSE m \in S : \A v \in S : v <= m

\* img.split()[-1]
AlphaOf(img) == [i \in 1..Len(img.px) |-> img.px[i][4]]

\* ImageFilter.MaxFilter(size): the maximum over the window of side size
\* around each pixel; beyond the border the edge pixel is repeated
MaxFilter(band, size) ==
    [i \in 1..Len(band) |->
        SetMax({band[j] : j \in {k \in 1..Len(band) :
                                    k >= i - size \div 2 /\ k <= i + size \div 2}})]

\* ImageMath "max(a - b, 0)" followed by convert('L'), which clips to 0..255
MaxDiffL(a, b) ==
    [i \in 1..Len(a) |->
        LET d == IF a[i] - b[i] > 0 THEN a[i] - b[i] ELSE 0
        IN  IF d > 255 THEN 255 ELSE d]

\* division by 255 as the paste does it: ((t >> 8) + t) >> 8 with t = v + 128
Div255(v) == (((v + 128) \div 256) + (v + 128)) \div 256

\* one channel of the paste under an "L" mask
Blend8(mask, in1, in2) == Div255(in1 * (255 - mask) + in2 * mask)

\* Image.composite(image1, image2, mask): image2 with image1 pasted under mask
Composite(image1, image2, mask) ==
    [mode |-> image2.mode,
     px |-> [i \in 1..Len(image2.px) |->
                [c \in 1..4 |-> Blend8(mask[i], image2.px[i][c], image1.px[i][c])]]]

outline_color == <<235, 225, 215, 255>>

add_white_outline(img, outline_width) ==
    IF img.mode # "RGBA" THEN img
    ELSE LET alpha == AlphaOf(img)
             expanded_alpha == MaxFilter(alpha, outline_width * 2 + 1)
             outline_mask == MaxDiffL(expanded_alpha, alpha)
             outline_img == [mode |-> "RGBA",
                             px |-> [i \in 1..Len(img.px) |-> outline_color]]
         IN  Composite(outline_img, img, outline_mask)

ColourVals == { <<0, 0, 0>>, <<255, 255, 255>> }
AlphaVals == {0, 128, 255}

RowsOf(S) == UNION {[1..n -> S] : n \in 1..MaxRow}

OutlineInputs ==
    [mode : {"RGBA"}, px : RowsOf({c \o <<a>> : c \in ColourVals, a \in AlphaVals})]
        \cup [mode : {"RGB"}, px : RowsOf(ColourVals)]

NoImage == [mode |-> "none", px |-> <<>>]

OutlineInit ==
    /\ oPc = "call"
    /\ oImg \in OutlineInputs
    /\ oWidth \in 0..MaxOutline
    /\ oOut = NoImage

OutlineCall ==
    /\ oPc = "call"
    /\ oOut' = add_white_outline(oImg, oWidth)
    /\ oPc' = "done"
    /\ UNCHANGED <<oImg, oWidth>>

OutlineOff ==
    /\ oPc = "off"
    /\ oImg = NoImage
    /\ oWidth = 0
    /\ oOut = NoImage

(***************************************************************************)
(* File names are sequences of characters, so that Path.suffix, Path.stem  *)
(* and str.lower are computed and not assumed.                             *)
(***************************************************************************)
UpperChars == <<"A", "B", "C", "D", "E", "F", "G", "H", "I", "J", "K", "L", "M",
                "N", "O", "P", "Q", "R", "S", "T", "U", "V", "W", "X", "Y", "Z">>
LowerChars == <<"a", "b", "c", "d", "e", "f", "g", "h", "i", "j", "k", "l", "m",
                "n", "o", "p", "q", "r", "s", "t", "u", "v", "w", "x", "y", "z">>

LowerChar(c) ==
    IF \E i \in 1..Len(UpperChars) : UpperChars[i] = c
    THEN LowerChars[CHOOSE i \in 1..Len(UpperChars) : UpperChars[i] = c]
    ELSE c

\* str.lower()
Lower(str) == [i \in 1..Len(str) |-> LowerChar(str[i])]

\* 1-based index of the last "." of name, 0 when there is none (str.rfind)
RFindDot(name) ==
    IF \E i \in 1..Len(name) : name[i] = "."
    THEN CHOOSE i \in 1..Len(name) :
            name[i] = "." /\ \A j \in (i + 1)..Len(name) : name[j] # "."
    ELSE 0

\* Path.suffix: from the last dot, unless the dot leads or ends the name
Suffix(name) ==
    LET i == RFindDot(name)
    IN  IF 1 < i /\ i < Len(name) THEN SubSeq(name, i, Len(name)) ELSE <<>>

\* Path.stem
Stem(name) ==
    LET i == RFindDot(name)
    IN  IF 1 < i /\ i < Len(name) THEN SubSeq(name, 1, i - 1) ELSE name

supported_formats ==
    { <<".", "j", "p", "g">>, <<".", "j", "p", "e", "g">>, <<".", "p", "n", "g">>,
      <<".", "b", "m", "p">>, <<".", "t", "i", "f", "f">>, <<".", "t", "i", "f">>,
      <<".", "w", "e", "b", "p">> }

\* file_path.suffix.lower() in self.supported_formats
IsSupported(name) == Lower(Suffix(name)) \in supported_formats

\* stem + "_processed.png"
OutputName(name) ==
    Stem(name) \o <<"_", "p", "r", "o", "c", "e", "s", "s", "e", "d", ".", "p", "n", "g">>

(***************************************************************************)
(* The entries the environment may put into new/, and what they hold.      *)
(***************************************************************************)
Names ==
    { <<"a", ".", "p", "n", "g">>,
      <<"a", ".", "J", "P", "G">>,
      <<"c", ".", "t", "x", "t">> }

Absent == [kind |-> "absent"]
Dir == [kind |-> "dir"]
Invalid == [kind |-> "invalid"]      \* a file that fails Image.open / verify
Img(m, w, h) == [kind |-> "image", mode |-> m, w |-> w, h |-> h]

Contents == { Dir, Invalid, Img("RGB", 300, 600), Img("RGBA", 1, 1000) }

TargetSize == 512
OutlineWidth == 6
MinSegBytes == 100

(***************************************************************************)
(* What rembg.remove may do: raise, return something that is not bytes, or *)
(* return bytes of some length that are no image ("garbage"), an image     *)
(* whose header parses but whose data does not decode ("truncated"), or an *)
(* image.  Image.open is lazy: it reads the header only.                   *)
(***************************************************************************)
SegResults ==
    { [type |-> "raise"], [type |-> "other"] } \cup
    [type : {"bytes"}, len : {MinSegBytes, MinSegBytes + 1},
     content : {"garbage", "truncated", "image"}]

Threads == {"main", "obs"}

IdleFrame ==
    [pc |-> "idle", input |-> <<>>, archive |-> FALSE, before |-> Absent,
     valid |-> FALSE, seg |-> "none", src |-> "none", mode |-> "none",
     decodes |-> FALSE, w |-> 0, h |-> 0, fill |-> "none", outlined |-> FALSE,
     err |-> "none", wrote |-> FALSE, moved |-> FALSE, segCalls |-> 0,
     status |-> "running"]

(***************************************************************************)
(* process_image(input_path, output_path, old_path), in the steps at which *)
(* it touches the file system or the segmentation operation.               *)
(***************************************************************************)
\* variant: the handler catches OSError only, the ValueError of resize escapes
OuterExcept_OnlyOSError(e) == IF e = "resize" THEN "raised" ELSE "returned"

\* the outer "except Exception": log, fall off the end of the function
OuterExcept(e) == "returned"

\* log_performance's wrapper: returns the result, re-raises an exception
LogPerformance(st) == st

\* an exception e reaches the function boundary of thread t's invocation
Raise(t, e) ==
    frame' = [frame EXCEPT ![t] = [@ EXCEPT !.err = e, !.pc = "return",
                                     !.status = LogPerformance(OuterExcept(e))]]

\* Image.open(input_path) followed by verify()
Verifies(ent) == ent.kind = "image"

\* variant: the "return" after the validation error is missing
AfterInvalid_FallThrough == "segment"

\* the pc after "Invalid input image" was logged: return
AfterInvalid == "return"

\* add_white_outline on a canvas of which only the mode is kept: a ring
\* around the alpha boundary, none for an image without alpha channel
outline_ring(img, outline_width) ==
    IF img.mode # "RGBA" THEN [img |-> img, ring |-> 0]
    ELSE [img |-> img, ring |-> outline_width]

\* process_file(input_path): the call of process_image by thread t
process_file(t, name) ==
    frame' = [frame EXCEPT ![t] =
                 [IdleFrame EXCEPT !.pc = "validate", !.input = name,
                                   !.archive = TRUE, !.before = incoming[name]]]

PI_Validate(t) ==
    /\ frame[t].pc = "validate"
    /\ IF Verifies(incoming[frame[t].input])
       THEN frame' = [frame EXCEPT ![t] = [@ EXCEPT !.valid = TRUE, !.pc = "segment"]]
       ELSE frame' = [frame EXCEPT ![t] = [@ EXCEPT !.pc = AfterInvalid,
                         !.status = IF AfterInvalid = "return"
                                    THEN LogPerformance("returned") ELSE @]]
    /\ UNCHANGED <<incoming, archived, processed>>

\* the result r of rembg.remove passes "isinstance(bytes) and len > 100" and
\* Image.open identifies it
SegAccepted(r) ==
    /\ r.type = "bytes"
    /\ r.len > MinSegBytes
    /\ r.content # "garbage"

\* the segmented image has the size of the image it was cut from
SegWidth(ent) == IF ent.kind = "image" THEN ent.w ELSE TargetSize
SegHeight(ent) == IF ent.kind = "image" THEN ent.h ELSE TargetSize

SegKind(r) ==
    IF r.type # "bytes" THEN r.type
    ELSE IF r.len <= MinSegBytes THEN "small" ELSE r.content

\* calls of rembg.remove for one result r of it
SegAttempts_Retry(r) == IF SegAccepted(r) THEN 1 ELSE 2

SegAttempts(r) == 1

PI_Segment(t) ==
    /\ frame[t].pc = "segment"
    /\ UNCHANGED <<incoming, archived, processed>>
    /\ LET f == frame[t]
           ent == incoming[f.input]
       IN  \E readOk \in BOOLEAN :
             IF ~readOk \/ ent.kind \notin {"image", "invalid"}
             THEN Raise(t, "read")
             ELSE \E r \in SegResults, reopenOk \in BOOLEAN :
                    IF SegAccepted(r)
                    THEN frame' = [frame EXCEPT ![t] = [@ EXCEPT
                                     !.segCalls = @ + SegAttempts(r), !.seg = SegKind(r),
                                     !.src = "segmented", !.mode = "RGBA",
                                     !.decodes = (r.content = "image"),
                                     !.w = SegWidth(ent), !.h = SegHeight(ent),
                                     !.pc = "transform"]]
                    ELSE IF reopenOk /\ Verifies(ent)
                    THEN frame' = [frame EXCEPT ![t] = [@ EXCEPT
                                     !.segCalls = @ + SegAttempts(r), !.seg = SegKind(r),
                                     !.src = "original", !.mode = ent.mode,
                                     !.decodes = TRUE,
                                     !.w = ent.w, !.h = ent.h,
                                     !.pc = "transform"]]
                    ELSE frame' = [frame EXCEPT ![t] = [@ EXCEPT
                                     !.segCalls = @ + SegAttempts(r), !.seg = SegKind(r),
                                     !.err = "reopen", !.pc = "return",
                                     !.status = LogPerformance(OuterExcept("reopen"))]]

\* convert to RGBA, create_square_image, add_white_outline
PI_Transform(t) ==
    /\ frame[t].pc = "transform"
    /\ UNCHANGED <<incoming, archived, processed>>
    /\ LET f == frame[t]
           img == [mode |-> IF f.mode # "RGBA" THEN "RGBA" ELSE f.mode,
                   w |-> f.w, h |-> f.h]
           square_img == create_square_image(img, TargetSize)
           outlined == outline_ring(square_img, OutlineWidth)
       IN  IF ~f.decodes THEN Raise(t, "decode")
           ELSE IF square_img.status # "ok" THEN Raise(t, "resize")
           ELSE frame' = [frame EXCEPT ![t] = [@ EXCEPT
                             !.mode = img.mode, !.fill = square_img.fill,
                             !.outlined = (outlined.ring > 0), !.pc = "save"]]

\* variant: a failed save is swallowed and the relocation goes ahead
PI_Save_Swallow(t) ==
    /\ frame[t].pc = "save"
    /\ UNCHANGED <<incoming, archived>>
    /\ \E ok \in BOOLEAN :
         /\ processed' = IF ok THEN processed \cup {OutputName(frame[t].input)}
                         ELSE processed
         /\ frame' = [frame EXCEPT ![t] = [@ EXCEPT !.wrote = ok,
                                                    !.pc = "relocate"]]

\* square_img.save(output_path, 'PNG', optimize=True)
PI_Save(t) ==
    /\ frame[t].pc = "save"
    /\ UNCHANGED <<incoming, archived>>
    /\ \E ok \in BOOLEAN :
         IF ok
         THEN /\ processed' = processed \cup {OutputName(frame[t].input)}
              /\ frame' = [frame EXCEPT ![t] = [@ EXCEPT !.wrote = TRUE,
                                                         !.pc = "relocate"]]
         ELSE /\ Raise(t, "save")
              /\ UNCHANGED processed

\* variant: the original is copied to old/ and stays in new/
Rename_Copy(t) ==
    /\ incoming' = incoming
    /\ archived' = archived \cup {frame[t].input}

\* input_path.rename(old_path): moves the file, replacing an archived file of
\* the same name, or raises
Rename(t) ==
    /\ incoming' = [incoming EXCEPT ![frame[t].input] = Absent]
    /\ archived' = archived \cup {frame[t].input}

PI_Relocate(t) ==
    /\ frame[t].pc = "relocate"
    /\ UNCHANGED processed
    /\ IF ~frame[t].archive
       THEN /\ frame' = [frame EXCEPT ![t] = [@ EXCEPT !.pc = "return",
                                    !.status = LogPerformance("returned")]]
            /\ UNCHANGED <<incoming, archived>>
       ELSE \E ok \in BOOLEAN :
              IF ok /\ incoming[frame[t].input].kind \notin {"absent"}
              THEN /\ Rename(t)
                   /\ frame' = [frame EXCEPT ![t] = [@ EXCEPT !.moved = TRUE,
                                    !.pc = "return",
                                    !.status = LogPerformance("returned")]]
              ELSE /\ Raise(t, "rename")
                   /\ UNCHANGED <<incoming, archived>>

\* process_image returns to process_file, which returns to its caller; an
\* exception that left process_image ends the calling thread
PI_Return(t) ==
    /\ frame[t].pc = "return"
    /\ frame' = [frame EXCEPT ![t] = IF frame[t].status = "raised"
                                     THEN [IdleFrame EXCEPT !.pc = "dead"]
                                     ELSE IdleFrame]
    /\ UNCHANGED <<incoming, archived, processed>>

(***************************************************************************)
(* main() and ImageHandler.  The watchdog observer delivers its events on  *)
(* one thread ("obs"), one event at a time, in the order of creation.      *)
(***************************************************************************)
\* variant: the backlog scan takes every file, whatever its suffix
ScanQualifies_AnyFile(name) == incoming[name].kind \notin {"absent", "dir"}

\* file_path.is_file() and file_path.suffix.lower() in supported_formats
ScanQualifies(name) ==
    /\ incoming[name].kind \notin {"absent", "dir"}
    /\ IsSupported(name)

\* variant: the suffix of an event's path is compared as it is written
EventQualifies_CaseSensitive(ev) ==
    /\ ~ev.is_directory
    /\ Suffix(ev.src_path) \in supported_formats

\* not event.is_directory and file_path.suffix.lower() in supported_formats
EventQualifies(ev) ==
    /\ ~ev.is_directory
    /\ IsSupported(ev.src_path)

\* variant: the observer is started before the backlog scan
MainStart_ObserverFirst ==
    /\ mainPc = "start"
    /\ mainPc' = "scan"
    /\ backlog' = {n \in Names : incoming[n].kind # "absent"}
    /\ obsRunning' = TRUE
    /\ queue' = <<>>
    /\ UNCHANGED <<incoming, archived, processed, frame, stopRequested>>

\* main() up to the for loop: new_folder.iterdir() lists the folder
MainStart ==
    /\ mainPc = "start"
    /\ mainPc' = "scan"
    /\ backlog' = {n \in Names : incoming[n].kind # "absent"}
    /\ UNCHANGED <<incoming, archived, processed, frame,
                   obsRunning, queue, stopRequested>>

\* one iteration of the for loop, entries in any order
ScanNext ==
    /\ mainPc = "scan"
    /\ frame["main"].pc = "idle"
    /\ \E n \in backlog :
         /\ backlog' = backlog \ {n}
         /\ IF ScanQualifies(n) THEN process_file("main", n)
            ELSE UNCHANGED frame
    /\ UNCHANGED <<incoming, archived, processed, mainPc,
                   obsRunning, queue, stopRequested>>

\* the loop is over: Observer(), schedule(), start()
StartObserver ==
    /\ mainPc = "scan"
    /\ frame["main"].pc = "idle"
    /\ backlog = {}
    /\ mainPc' = "watch"
    /\ obsRunning' = TRUE
    /\ queue' = <<>>
    /\ UNCHANGED <<incoming, archived, processed, frame, backlog,
                   stopRequested>>

\* KeyboardInterrupt in the sleep loop: observer.stop()
Interrupt ==
    /\ mainPc = "watch"
    /\ mainPc' = "join"
    /\ obsRunning' = FALSE
    /\ stopRequested' = TRUE
    /\ UNCHANGED <<incoming, archived, processed, frame, backlog, queue>>

\* observer.join() returns once the observer thread has ended
JoinReturns == frame["obs"].pc = "idle"

\* after observer.join(): the last statement of main() is main()
JoinAndReenter ==
    /\ mainPc = "join"
    /\ JoinReturns
    /\ mainPc' = "start"
    /\ UNCHANGED <<incoming, archived, processed, frame, backlog,
                   obsRunning, queue, stopRequested>>

\* the observer thread takes the next event: on_created(event)
ObsDispatch ==
    /\ obsRunning
    /\ queue # <<>>
    /\ frame["obs"].pc = "idle"
    /\ queue' = Tail(queue)
    /\ IF EventQualifies(Head(queue)) THEN process_file("obs", Head(queue).src_path)
       ELSE UNCHANGED frame
    /\ UNCHANGED <<incoming, archived, processed, mainPc, backlog,
                   obsRunning, stopRequested>>

\* the environment creates an entry in new/; a running observer queues the
\* creation event
EnvCreate ==
    \E n \in Names, c \in Contents :
        /\ incoming[n].kind = "absent"
        /\ obsRunning => Len(queue) < MaxQueue
        /\ incoming' = [incoming EXCEPT ![n] = c]
        /\ queue' = IF obsRunning
                    THEN Append(queue, [src_path |-> n, is_directory |-> c.kind = "dir"])
                    ELSE queue
        /\ UNCHANGED <<archived, processed, frame, mainPc, backlog,
                       obsRunning, stopRequested>>

Validate == \E t \in Threads : PI_Validate(t) /\ UNCHANGED <<mainPc, backlog, obsRunning, queue, stopRequested>>
Segment == \E t \in Threads : PI_Segment(t) /\ UNCHANGED <<mainPc, backlog, obsRunning, queue, stopRequested>>
Transform == \E t \in Threads : PI_Transform(t) /\ UNCHANGED <<mainPc, backlog, obsRunning, queue, stopRequested>>
Save == \E t \in Threads : PI_Save(t) /\ UNCHANGED <<mainPc, backlog, obsRunning, queue, stopRequested>>
Relocate == \E t \in Threads : PI_Relocate(t) /\ UNCHANGED <<mainPc, backlog, obsRunning, queue, stopRequested>>
Return == \E t \in Threads : PI_Return(t) /\ UNCHANGED <<mainPc, backlog, obsRunning, queue, stopRequested>>

WatcherInit ==
    /\ incoming \in [Names -> Contents \cup {Absent}]
    /\ archived = {}
    /\ processed = {}
    /\ frame = [t \in Threads |-> IdleFrame]
    /\ mainPc = "start"
    /\ backlog = {}
    /\ obsRunning = FALSE
    /\ queue = <<>>
    /\ stopRequested = FALSE

(***************************************************************************)
(* upload_files: one request of the web front end.  The session upload     *)
(* directory is incoming, the session output directory is processed, and   *)
(* process_image runs on the request's thread without an archive path.     *)
(***************************************************************************)
ALLOWED_EXTENSIONS ==
    { <<"p", "n", "g">>, <<"j", "p", "g">>, <<"j", "p", "e", "g">>,
      <<"b", "m", "p">>, <<"t", "i", "f", "f">>, <<"t", "i", "f">>,
      <<"w", "e", "b", "p">> }

\* '.' in filename and filename.rsplit('.', 1)[1].lower() in ALLOWED_EXTENSIONS
allowed_file(filename) ==
    /\ RFindDot(filename) > 0
    /\ Lower(SubSeq(filename, RFindDot(filename) + 1, Len(filename)))
           \in ALLOWED_EXTENSIONS

Digits == <<"0", "1", "2", "3", "4", "5", "6", "7", "8", "9">>

SafeChars ==
    {UpperChars[i] : i \in 1..Len(UpperChars)} \cup
    {LowerChars[i] : i \in 1..Len(LowerChars)} \cup
    {Digits[i] : i \in 1..Len(Digits)} \cup {"_", ".", "-"}

IsSafeChar(c) == c \in SafeChars

RECURSIVE LStrip(_)
LStrip(str) ==
    IF str # <<>> /\ Head(str) \in {".", "_"} THEN LStrip(Tail(str)) ELSE str

RECURSIVE RStrip(_)
RStrip(str) ==
    IF str # <<>> /\ str[Len(str)] \in {".", "_"}
    THEN RStrip(SubSeq(str, 1, Len(str) - 1)) ELSE str

\* werkzeug's secure_filename for a name without whitespace or path
\* separators: drop every character outside [A-Za-z0-9_.-], then strip
\* "." and "_" from both ends
secure_filename(filename) == RStrip(LStrip(SelectSeq(filename, IsSafeChar)))

MaxFiles == 20
MaxFileSize == 10485760

UploadNames ==
    { <<"a", ".", "p", "n", "g">>,
      <<".", "a", ".", "J", "P", "G">>,
      <<"c", ".", "t", "x", "t">> }

UploadItems ==
    [filename : UploadNames,
     content : {Invalid, Img("RGB", 300, 600)},
     size : {MaxFileSize, MaxFileSize + 1}]

Batches == UNION {[1..n -> UploadItems] : n \in 0..MaxBatch}

UploadInit ==
    /\ upPc = "start"
    /\ files \in Batches
    /\ processed_files = <<>>
    /\ zipped = <<>>

UploadOff ==
    /\ upPc = "off"
    /\ files = <<>>
    /\ processed_files = <<>>
    /\ zipped = <<>>

\* the checks before the loop: no file selected, more than 20 files
UpStart ==
    /\ upPc = "start"
    /\ upPc' = IF files = <<>> \/ files[1].filename = <<>> THEN "redirect"
               ELSE IF Len(files) > MaxFiles THEN "redirect"
               ELSE "loop"
    /\ UNCHANGED <<files, processed_files, zipped, wvars>>

\* one round of "for file in files" up to the call of process_image
UpNext ==
    /\ upPc = "loop"
    /\ files # <<>>
    /\ files' = Tail(files)
    /\ UNCHANGED <<processed_files, zipped, archived, processed, mainPc,
                   backlog, obsRunning, queue, stopRequested>>
    /\ LET file == Head(files)
           filename == secure_filename(file.filename)
       IN  IF ~(file.filename # <<>> /\ allowed_file(file.filename))
           THEN UNCHANGED <<upPc, incoming, frame>>
           ELSE IF file.size > MaxFileSize
           THEN UNCHANGED <<upPc, incoming, frame>>
           ELSE \E saved \in BOOLEAN :
                  IF saved
                  THEN /\ incoming' = [incoming EXCEPT ![filename] = file.content]
                       /\ frame' = [frame EXCEPT !["main"] =
                              [IdleFrame EXCEPT !.pc = "validate",
                                                !.input = filename,
                                                !.archive = FALSE,
                                                !.before = file.content]]
                       /\ upPc' = "process"
                  ELSE UNCHANGED <<upPc, incoming, frame>>

\* process_image came back: processed_files.append(processed_path.name), or
\* the except clause of the loop when it raised
UpAppend ==
    /\ upPc = "process"
    /\ frame["main"].pc = "return"
    /\ processed_files' =
           IF frame["main"].status = "raised" THEN processed_files
           ELSE Append(processed_files, OutputName(frame["main"].input))
    /\ frame' = [frame EXCEPT !["main"] = IdleFrame]
    /\ upPc' = "loop"
    /\ UNCHANGED <<files, zipped, incoming, archived, processed, mainPc,
                   backlog, obsRunning, queue, stopRequested>>

\* after the loop: the ZIP archive of processed_files, where zipf.write of a
\* file that does not exist raises FileNotFoundError out of the view
UpZip ==
    /\ upPc = "loop"
    /\ files = <<>>
    /\ IF processed_files = <<>>
       THEN upPc' = "redirect" /\ UNCHANGED zipped
       ELSE IF \E i \in 1..Len(processed_files) : processed_files[i] \notin processed
       THEN /\ upPc' = "raised"
            /\ LET k == CHOOSE i \in 1..Len(processed_files) :
                           /\ processed_files[i] \notin processed
                           /\ \A j \in 1..(i - 1) : processed_files[j] \in processed
               IN  zipped' = SubSeq(processed_files, 1, k - 1)
       ELSE upPc' = "results" /\ zipped' = processed_files
    /\ UNCHANGED <<files, processed_files, wvars>>

(***************************************************************************)
(* Bookkeeping for the watcher: for every name, the phase of the current   *)
(* run of main() in which its entry was created, and how often the entry   *)
(* was handed to process_file in this run.                                 *)
(***************************************************************************)
TrackOff ==
    /\ born = [n \in Names |-> "none"]
    /\ dispatched = [n \in Names |-> 0]

\* the phase of main(): before iterdir, in the backlog loop, observer
\* started, observer stopped
Phase ==
    CASE mainPc = "start" -> "early"
      [] mainPc = "scan" -> "race"
      [] mainPc = "watch" -> "live"
      [] mainPc = "join" -> "stopped"

Track ==
    LET listed == mainPc = "start" /\ mainPc' = "scan"
        created(n) == incoming[n].kind = "absent" /\ incoming'[n].kind # "absent"
        handed(n) == \E t \in Threads :
                        /\ frame[t].pc = "idle"
                        /\ frame'[t].pc = "validate"
                        /\ frame'[t].input = n
    IN  /\ born' = [n \in Names |->
                      IF listed
                      THEN IF incoming[n].kind # "absent" THEN "backlog" ELSE "none"
                      ELSE IF created(n) THEN Phase
                      ELSE born[n]]
        /\ dispatched' = [n \in Names |->
                            IF listed \/ created(n) THEN 0
                            ELSE IF handed(n) THEN dispatched[n] + 1
                            ELSE dispatched[n]]

NormOff ==
    /\ nPc = "off"
    /\ nImg = [mode |-> "RGB", w |-> 1, h |-> 1]
    /\ nSize = 1
    /\ nOut = NoCanvas

Init == WatcherInit /\ NormOff /\ OutlineOff /\ UploadOff /\ TrackOff

Next ==
    \/ (MainStart /\ UNCHANGED pvars)
    \/ (ScanNext /\ UNCHANGED pvars)
    \/ (StartObserver /\ UNCHANGED pvars)
    \/ (Interrupt /\ UNCHANGED pvars)
    \/ (JoinAndReenter /\ UNCHANGED pvars)
    \/ (ObsDispatch /\ UNCHANGED pvars)
    \/ (EnvCreate /\ UNCHANGED pvars)
    \/ (Validate /\ UNCHANGED pvars)
    \/ (Segment /\ UNCHANGED pvars)
    \/ (Transform /\ UNCHANGED pvars)
    \/ (Save /\ UNCHANGED pvars)
    \/ (Relocate /\ UNCHANGED pvars)
    \/ (Return /\ UNCHANGED pvars)

Spec == Init /\ [][Next]_vars

\* the normalizer alone, on every input within the bounds
InitNorm ==
    /\ NormInit /\ OutlineOff /\ UploadOff /\ TrackOff
    /\ WatcherInit /\ incoming = [n \in Names |-> Absent]

NextNorm == NormCall /\ UNCHANGED <<ovars, uvars, gvars, wvars>>

SpecNorm == InitNorm /\ [][NextNorm]_vars

\* the watcher with the bookkeeping of creations and dispatches
\* the entries drawn for the bookkeeping: a directory or an image
RaceContents == {Dir, Img("RGB", 300, 600)}

RaceEntries == \A n \in Names : incoming[n] \in RaceContents \cup {Absent}

InitRace ==
    /\ WatcherInit /\ NormOff /\ OutlineOff /\ UploadOff
    /\ RaceEntries
    /\ born = [n \in Names |-> IF incoming[n].kind # "absent" THEN "early" ELSE "none"]
    /\ dispatched = [n \in Names |-> 0]

NextRace ==
    \/ (MainStart /\ Track /\ UNCHANGED cvars)
    \/ (ScanNext /\ Track /\ UNCHANGED cvars)
    \/ (StartObserver /\ Track /\ UNCHANGED cvars)
    \/ (Interrupt /\ Track /\ UNCHANGED cvars)
    \/ (JoinAndReenter /\ Track /\ UNCHANGED cvars)
    \/ (ObsDispatch /\ Track /\ UNCHANGED cvars)
    \/ (EnvCreate /\ RaceEntries' /\ Track /\ UNCHANGED cvars)
    \/ (Validate /\ Track /\ UNCHANGED cvars)
    \/ (Segment /\ Track /\ UNCHANGED cvars)
    \/ (Transform /\ Track /\ UNCHANGED cvars)
    \/ (Save /\ Track /\ UNCHANGED cvars)
    \/ (Relocate /\ Track /\ UNCHANGED cvars)
    \/ (Return /\ Track /\ UNCHANGED cvars)

SpecRace == InitRace /\ [][NextRace]_vars

\* add_white_outline on its own, over every bounded pixel row
InitOutline ==
    /\ OutlineInit /\ NormOff /\ UploadOff /\ TrackOff
    /\ WatcherInit /\ incoming = [n \in Names |-> Absent]

NextOutline == OutlineCall /\ UNCHANGED <<nvars, uvars, gvars, wvars>>

SpecOutline == InitOutline /\ [][NextOutline]_vars

\* one upload request over every bounded batch
InitUpload ==
    /\ UploadInit /\ NormOff /\ OutlineOff /\ TrackOff
    /\ WatcherInit /\ incoming = [n \in Names |-> Absent]

NextUpload ==
    \/ (UpStart /\ UNCHANGED <<nvars, ovars, gvars>>)
    \/ (UpNext /\ UNCHANGED <<nvars, ovars, gvars>>)
    \/ (Validate /\ UNCHANGED pvars)
    \/ (Segment /\ UNCHANGED pvars)
    \/ (Transform /\ UNCHANGED pvars)
    \/ (Save /\ UNCHANGED pvars)
    \/ (Relocate /\ UNCHANGED pvars)
    \/ (UpAppend /\ UNCHANGED <<nvars, ovars, gvars>>)
    \/ (UpZip /\ UNCHANGED <<nvars, ovars, gvars>>)

SpecUpload == InitUpload /\ [][NextUpload]_vars

(***************************************************************************)
(* Properties.                                                             *)
(***************************************************************************)
Present(n) == incoming[n].kind # "absent"
Active(t) == frame[t].pc \notin {"idle", "dead"}
AtReturn(t) == frame[t].pc = "return"

\* C1: an invocation whose input is not a valid image ends without output,
\* without relocation, with the source entry as it was, without a call of the
\* segmentation operation, and returns normally.
C1_InvalidInputLeftAlone ==
    \A t \in Threads :
        (AtReturn(t) /\ frame[t].before.kind # "image") =>
            /\ ~frame[t].wrote
            /\ ~frame[t].moved
            /\ incoming[frame[t].input] = frame[t].before
            /\ frame[t].segCalls = 0
            /\ frame[t].status = "returned"

C1_Witness ==
    \E t \in Threads :
        AtReturn(t) /\ frame[t].before = Invalid /\ Present(frame[t].input)

SegFailures == {"raise", "other", "small", "garbage", "truncated"}

\* C2: after validation, whenever background removal failed (raised, no
\* bytes, at most 100 bytes, bytes that do not decode) and no later step
\* failed on its own, the invocation continued with the original image, wrote
\* the output and, given an archive path, relocated the original.
C2_SegFailureFallsBack ==
    \A t \in Threads :
        (/\ AtReturn(t)
         /\ frame[t].valid
         /\ frame[t].seg \in SegFailures
         /\ frame[t].err \notin {"reopen", "resize", "save", "rename"}) =>
            /\ frame[t].src = "original"
            /\ frame[t].wrote
            /\ frame[t].archive => frame[t].moved

\* C3: every invocation returns normally, whatever failed after validation,
\* and no thread of the watcher is ended by an exception.
C3_NeverRaises ==
    \A t \in Threads :
        /\ AtReturn(t) => frame[t].status = "returned"
        /\ frame[t].pc # "dead"
        /\ frame[t].status # "raised"

C3_Witness ==
    \E t \in Threads :
        /\ AtReturn(t) /\ frame[t].valid /\ frame[t].wrote
        /\ frame[t].err = "rename" /\ frame[t].status = "returned"

InBoth(n) == Present(n) /\ n \in archived

\* C4 (as claimed): no filename is in Incoming and in Archived at once.
C4_NeverInBoth == \A n \in Names : ~InBoth(n)

\* C4 (amended): a filename comes to be in both Incoming and Archived only by
\* the creation of an Incoming entry under an already archived name; no step
\* of the watcher or of process_image puts a name in both, and a relocation
\* leaves the name in Archived only.
C4_RelocationMoves ==
    [][/\ \A n \in Names :
             (InBoth(n)' /\ ~InBoth(n)) => (~Present(n) /\ n \in archived)
       /\ \A t \in Threads :
             (frame'[t].moved /\ ~frame[t].moved) =>
                 (~Present(frame[t].input)' /\ frame[t].input \in archived')]_vars

C4_Witness ==
    \E t \in Threads :
        /\ AtReturn(t) /\ frame[t].moved
        /\ frame[t].input \in archived /\ ~Present(frame[t].input)

\* C7: once a KeyboardInterrupt was handled, main() scans no backlog and runs
\* no subscription any more.
C7_NoScanAfterStop ==
    stopRequested => (mainPc \notin {"scan", "watch"} /\ ~obsRunning)

\* C8: at most one process_image invocation is in progress, and the observer
\* thread handles no event while main() is before or in its backlog scan.
C8_Serialized ==
    /\ Cardinality({t \in Threads : Active(t)}) <= 1
    /\ mainPc \in {"start", "scan"} => ~Active("obs")

C8_Witness ==
    /\ frame["obs"].pc = "save"
    /\ archived # {}
    /\ mainPc = "watch"

SpecExtensions ==
    { <<"j", "p", "g">>, <<"j", "p", "e", "g">>, <<"p", "n", "g">>,
      <<"b", "m", "p">>, <<"t", "i", "f", "f">>, <<"t", "i", "f">>,
      <<"w", "e", "b", "p">> }

HasSpecExtension(n) ==
    /\ Suffix(n) # <<>>
    /\ Lower(Tail(Suffix(n))) \in SpecExtensions

\* C9: what is dispatched is a file with one of the seven extensions, in any
\* letter case; an entry with another extension is never dispatched, never
\* archived and never the source of an output.
C9_OnlySupportedFiles ==
    /\ \A t \in Threads :
          Active(t) => /\ HasSpecExtension(frame[t].input)
                       /\ frame[t].before.kind \in {"image", "invalid"}
    /\ \A n \in Names :
          ~HasSpecExtension(n) =>
              /\ n \notin archived
              /\ OutputName(n) \in processed =>
                    \E m \in Names : HasSpecExtension(m) /\ OutputName(m) = OutputName(n)

C9_Witness ==
    \E t \in Threads :
        /\ AtReturn(t) /\ frame[t].moved
        /\ frame[t].input = <<"a", ".", "J", "P", "G">>
        /\ Present(<<"c", ".", "t", "x", "t">>)

\* C10: an output made from the unmodified original of a source without
\* alpha channel has opaque white padding.
C10_OpaqueSourceWhitePadding ==
    \A t \in Threads :
        (/\ frame[t].wrote
         /\ frame[t].src = "original"
         /\ frame[t].before.kind = "image"
         /\ frame[t].before.mode = "RGB") => frame[t].fill = "white"

Max(a, b) == IF a >= b THEN a ELSE b

\* C5: whenever create_square_image returns, the canvas is T x T, the resized
\* image fits with its longer side equal to T, and it is pasted at the
\* floor-centred offset, inside the canvas, paddings differing by at most 1.
C5_SquareFit ==
    (nPc = "done" /\ nOut.status = "ok") =>
        /\ nOut.width = nSize /\ nOut.height = nSize
        /\ nOut.new_width <= nSize /\ nOut.new_height <= nSize
        /\ Max(nOut.new_width, nOut.new_height) = nSize
        /\ nOut.x = (nSize - nOut.new_width) \div 2
        /\ nOut.y = (nSize - nOut.new_height) \div 2
        /\ nOut.x >= 0 /\ nOut.y >= 0
        /\ (nSize - nOut.new_width - nOut.x) - nOut.x \in {0, 1}
        /\ (nSize - nOut.new_height - nOut.y) - nOut.y \in {0, 1}

\* C6: for every input with non-zero width and height the resized dimensions
\* are at least 1 and create_square_image returns a canvas.
C6_DimsAtLeastOne ==
    nPc = "done" =>
        /\ nOut.new_width >= 1
        /\ nOut.new_height >= 1
        /\ nOut.status = "ok"


\* the mask the outline generator works from: max(dilatedAlpha - alpha, 0)
OutlineMask(img, w) == MaxDiffL(MaxFilter(AlphaOf(img), w * 2 + 1), AlphaOf(img))

\* C11: the outline composite selects, it never blends: where the mask
\* max(dilatedAlpha - originalAlpha, 0) is non-zero the output pixel is
\* exactly the fill colour (235, 225, 215, 255), elsewhere it is the input
\* pixel unchanged, also for mask values strictly between 0 and 255.
C11_BinaryComposite ==
    (oPc = "done" /\ oImg.mode = "RGBA") =>
        \A i \in 1..Len(oImg.px) :
            oOut.px[i] = IF OutlineMask(oImg, oWidth)[i] # 0
                         THEN <<235, 225, 215, 255>>
                         ELSE oImg.px[i]

\* C12 (as claimed): an invocation whose validation succeeded has called the
\* segmentation engine exactly once when it ends.
C12_ExactlyOnceWhenValid ==
    \A t \in Threads :
        (AtReturn(t) /\ frame[t].valid) => frame[t].segCalls = 1

\* C12 (amended): the segmentation engine is called at most once per
\* invocation: never when validation failed, never when reading the input
\* bytes failed, exactly once when validation succeeded and the bytes were
\* read; a segmentation failure is not retried.
C12_AtMostOnce ==
    \A t \in Threads :
        /\ frame[t].segCalls <= 1
        /\ AtReturn(t) =>
              frame[t].segCalls =
                  IF frame[t].valid /\ frame[t].err # "read" THEN 1 ELSE 0

C12_Witness ==
    \E t \in Threads :
        /\ AtReturn(t) /\ frame[t].valid
        /\ frame[t].seg \in SegFailures /\ frame[t].src = "original"
        /\ frame[t].segCalls = 1

\* C14 (as claimed, second half): an invocation can end with the original
\* relocated while it wrote no output; the only step before the relocation
\* that can leave the output unwritten is a failed persist, so: an invocation
\* with an archive path whose persist step failed still relocates the original.
C14_RelocatedWithoutOutput ==
    \A t \in Threads :
        (AtReturn(t) /\ frame[t].archive /\ frame[t].err = "save") =>
            frame[t].moved

\* C14 (amended): persist and relocate are not transactional in one
\* direction only: an invocation can end with its output written and the
\* original not relocated, but an invocation that relocated the original has
\* written its output, which exists.
C14_RelocatedOnlyAfterOutput ==
    \A t \in Threads :
        frame[t].moved =>
            /\ frame[t].wrote
            /\ OutputName(frame[t].input) \in processed

C14_Witness ==
    \E t \in Threads :
        /\ AtReturn(t) /\ frame[t].archive
        /\ frame[t].wrote /\ ~frame[t].moved
        /\ OutputName(frame[t].input) \in processed
        /\ Present(frame[t].input)

UploadEnded == upPc \in {"redirect", "results", "raised"}

\* C13: one bad image never aborts the batch: every request ends without an
\* exception out of the ZIP step, and when outputs are bundled the archive
\* holds the outputs that exist, one entry for each file handed to
\* process_image that wrote its output.
C13_BatchCompletes ==
    UploadEnded =>
        /\ upPc # "raised"
        /\ \A i \in 1..Len(zipped) : zipped[i] \in processed
        /\ upPc = "results" => zipped = processed_files

\* a name whose entry is, or was until its relocation, a file with a
\* supported extension
SupportedFile(n) == IsSupported(n) /\ incoming[n].kind # "dir"

Pending(n) == \E i \in 1..Len(queue) : queue[i].src_path = n

====
